---- MODULE Spec2Model ----
(***************************************************************************)
(* A model of promptbox's template-variable engine                         *)
(* (promptbox/utils/prompt_parser.py), of its folder-tree builder          *)
(* (promptbox/ui/prompt_view.py, promptbox/ui/character_view.py), of the   *)
(* prompts table with its forms and folder query                           *)
(* (promptbox/services/prompt_service.py), of the navigation and the chat  *)
(* page of the web application (promptbox/app.py,                          *)
(* promptbox/ui/chat_view.py, promptbox/ui/sessions_view.py) and of the    *)
(* chat_messages table (promptbox/services/chat_service.py).               *)
(*                                                                         *)
(* Strings are sequences of one-character strings.  The regular            *)
(* expressions of prompt_parser.py are modelled by what Python's re module *)
(* does with them: leftmost, non-overlapping matches, greedy \s* and \w+,  *)
(* and a replacement argument that re.sub reads as a template.             *)
(***************************************************************************)
EXTENDS Naturals, Sequences, FiniteSets

VARIABLES
    text,         \* the text argument: [isNone, chars]
    context,      \* the context dict, as its items() in insertion order
    pc,           \* "input", "extracted", "substituted" or "roundtrip"
    extracted,    \* the list extract_variables returned last
    substituted,  \* the outcome of substitute_variables: [raised, isNone, chars]
    records,      \* the folder strings of the records given to the tree builder
    tree,         \* the nodes get_folder_structure allocated; node 1 is the root
    built,        \* whether get_folder_structure has returned
    allPaths,     \* all_folder_paths; empty until get_all_paths has run
    rendered_folder,  \* the folder the page shows: [done, selected, path, node]
    db,           \* the rows of the prompts table: [name, folder]; id = position
    selected_prompt_id,           \* st.session_state.selected_prompt_id; 0 is None
    prompt_selected_folder_path,  \* st.session_state.prompt_selected_folder_path
    formOutcome,  \* what the last submitted prompt form ended with
    folder_path,  \* the argument of the last get_prompts_by_folder call
    queryResult,  \* the ids it returned, in the order of the returned list
    view,                     \* st.session_state.view
    chat_stage,               \* st.session_state.chat_stage; "absent" if not set
    next_chat_stage,          \* st.session_state.next_chat_stage; "absent", "None"
    active_prompt,            \* id of st.session_state.active_prompt; 0 if none
    active_card,              \* id of st.session_state.active_card; 0 if none
    current_messages_data,    \* st.session_state.current_messages_data
    current_chat_session_id,  \* st.session_state.current_chat_session_id; 0 is None
    editing_message_index,    \* position of the message being edited; 0 is None
    setup_chat_provider,      \* st.session_state.setup_chat_provider; "None"
    setup_chat_model,         \* st.session_state.setup_chat_model; "None"
    variable_values,          \* the variable inputs of the setup page: [key, value]
    llm_request,    \* the history the last render sent to the model; <<>> if none
    chat_sessions,  \* the rows of chat_sessions; id = position
    chat_messages,  \* the rows of chat_messages, in the order of insertion
    save_call,      \* the last save_chat_messages call: arguments and result
    live_prompts,   \* the ids of the rows of the prompts table
    live_cards      \* the ids of the rows of the character_cards table

vars == <<text, context, pc, extracted, substituted, records, tree, built,
          allPaths, rendered_folder, db, selected_prompt_id, prompt_selected_folder_path,
          formOutcome, folder_path, queryResult, view, chat_stage,
          next_chat_stage, active_prompt, active_card, current_messages_data,
          current_chat_session_id, editing_message_index, setup_chat_provider,
          setup_chat_model, variable_values, llm_request, chat_sessions,
          chat_messages, save_call, live_prompts, live_cards>>

veVars == <<text, context, pc, extracted, substituted>>

treeVars == <<records, tree, built, allPaths, rendered_folder>>

storeVars == <<db, selected_prompt_id, prompt_selected_folder_path,
               formOutcome, folder_path, queryResult>>

tableVars == <<chat_sessions, chat_messages, save_call>>

chatVars == <<view, chat_stage, next_chat_stage, active_prompt, active_card,
              current_messages_data, current_chat_session_id,
              editing_message_index, setup_chat_provider, setup_chat_model,
              variable_values, llm_request, live_prompts, live_cards>>

appVars == <<chatVars, tableVars>>

(***************************************************************************)
(* Bounds of the model.                                                    *)
(***************************************************************************)
MaxPieces == 3

MaxKeys == 2

MaxRecords == 3

(***************************************************************************)
(* Characters.                                                             *)
(***************************************************************************)
BACKSLASH == "\\"

\* chr(0), chr(7), chr(8) and chr(10): what the template escapes \0, \a, \b
\* and \n stand for.
NUL == "<NUL>"

BEL == "<BEL>"

BS == "<BS>"

NL == "\n"

\* The characters \s matches.
SpaceChars == {" ", "\t", NL}

\* The characters \w matches, among those the model uses.
WordChars == {"0", "X", "_", "a", "b", "g", "n"}

AsciiLetters == {"X", "a", "b", "g", "n"}

Digits == {"0"}

\* ord(c): the order sorted() compares strings by.
CharCode(c) ==
    CASE c = " " -> 32
      [] c = "/" -> 47
      [] c = "0" -> 48
      [] c = "A" -> 65
      [] c = "X" -> 88
      [] c = "_" -> 95
      [] c = "a" -> 97
      [] c = "b" -> 98
      [] c = "g" -> 103
      [] c = "n" -> 110
      [] c = "p" -> 112
      [] c = "q" -> 113
      [] OTHER -> 0

IsSpace(c) == c \in SpaceChars

IsWord(c) == c \in WordChars

OPEN == <<"[", "[">>

CLOSE == <<"]", "]">>

(***************************************************************************)
(* Helpers on strings.                                                     *)
(***************************************************************************)
\* s[i:i+len(lit)] == lit
HasAt(s, i, lit) ==
    /\ i >= 1
    /\ i + Len(lit) - 1 <= Len(s)
    /\ \A k \in 1..Len(lit) : s[i + k - 1] = lit[k]

\* The first index from i on that holds no \s character (greedy \s*).
RECURSIVE SkipSpaces(_, _)
SkipSpaces(s, i) ==
    IF i <= Len(s) /\ IsSpace(s[i]) THEN SkipSpaces(s, i + 1) ELSE i

\* The first index from i on that holds no \w character (greedy \w+).
RECURSIVE SkipWord(_, _)
SkipWord(s, i) ==
    IF i <= Len(s) /\ IsWord(s[i]) THEN SkipWord(s, i + 1) ELSE i

Max(S) == CHOOSE m \in S : \A n \in S : n <= m

\* s < t as Python compares two str.
RECURSIVE StrLess(_, _)
StrLess(s, t) ==
    IF t = <<>> THEN FALSE
    ELSE IF s = <<>> THEN TRUE
    ELSE IF CharCode(Head(s)) # CharCode(Head(t))
         THEN CharCode(Head(s)) < CharCode(Head(t))
         ELSE StrLess(Tail(s), Tail(t))

\* sorted(list(S)) for a set S of names.
RECURSIVE SortedList(_)
SortedList(S) ==
    IF S = {} THEN <<>>
    ELSE LET least == CHOOSE x \in S : \A y \in S \ {x} : StrLess(x, y)
         IN  <<least>> \o SortedList(S \ {least})

Range(q) == {q[k] : k \in 1..Len(q)}

(***************************************************************************)
(* extract_variables: re.findall(r"\[\[\s*(\w+)\s*\]\]", text), then       *)
(* sorted(list(set(...))).                                                 *)
(***************************************************************************)
\* Fault variant of VariableMatch: the pattern without its two \s*.
VariableMatchNoSpace(s, i) ==
    LET w == SkipWord(s, i + 2)
    IN  IF HasAt(s, i, OPEN) /\ w > i + 2 /\ HasAt(s, w, CLOSE)
        THEN [found |-> TRUE, name |-> SubSeq(s, i + 2, w - 1), end |-> w + 2]
        ELSE [found |-> FALSE, name |-> <<>>, end |-> i]

\* A match of \[\[\s*(\w+)\s*\]\] that starts at index i: the captured name
\* and the index after the match.  \s and \w share no character and neither
\* holds a bracket, so the greedy match is the only one.
VariableMatch(s, i) ==
    LET p == SkipSpaces(s, i + 2)
        w == SkipWord(s, p)
        e == SkipSpaces(s, w)
    IN  IF HasAt(s, i, OPEN) /\ w > p /\ HasAt(s, e, CLOSE)
        THEN [found |-> TRUE, name |-> SubSeq(s, p, w - 1), end |-> e + 2]
        ELSE [found |-> FALSE, name |-> <<>>, end |-> i]

\* re.findall: the captures of the leftmost non-overlapping matches from i on.
RECURSIVE FindAll(_, _)
FindAll(s, i) ==
    IF i > Len(s) THEN <<>>
    ELSE LET m == VariableMatch(s, i)
         IN  IF m.found THEN <<m.name>> \o FindAll(s, m.end)
             ELSE FindAll(s, i + 1)

\* Fault variant of ExtractVariables: without set() and sorted().
ExtractVariablesUnsorted(t) ==
    IF t.isNone \/ t.chars = <<>> THEN <<>> ELSE FindAll(t.chars, 1)

ExtractVariables(t) ==
    IF t.isNone \/ t.chars = <<>> THEN <<>>
    ELSE SortedList(Range(FindAll(t.chars, 1)))

(***************************************************************************)
(* substitute_variables: for each item of the context, in order,           *)
(*   text = re.sub(r"\[\[\s*" + re.escape(var_name) + r"\s*\]\]",          *)
(*                 var_value, text)                                        *)
(* re.sub reads var_value as a replacement template: a backslash starts an *)
(* escape, and a template that does not parse raises re.error before any   *)
(* match is looked for.                                                    *)
(***************************************************************************)
\* What the escapes \a, \b, \n and \\ of a template stand for.
Escapes(c) ==
    CASE c = "a" -> BEL
      [] c = "b" -> BS
      [] c = "n" -> NL
      [] c = BACKSLASH -> BACKSLASH

EscapeChars == {"a", "b", "n", BACKSLASH}

\* The index of the ">" that closes the group name starting at i, 0 if none.
RECURSIVE GroupNameEnd(_, _)
GroupNameEnd(repl, i) ==
    IF i > Len(repl) THEN 0
    ELSE IF repl[i] = ">" THEN i
    ELSE GroupNameEnd(repl, i + 1)

\* The index after the (at most two) octal digits that follow \0 from i on.
OctalEnd(repl, i) ==
    IF i <= Len(repl) /\ repl[i] \in Digits
    THEN IF i + 1 <= Len(repl) /\ repl[i + 1] \in Digits THEN i + 2 ELSE i + 1
    ELSE i

\* re's parse_template and expand, from index i of the template, for a
\* pattern without groups and the matched text m: [raises, out].
\*   \g<0>            the whole match       \g<anything else>   re.error
\*   \0, \00, \000    chr(0)                \a \b \n \\         the escape
\*   \ + other letter re.error              \ at the end        re.error
\*   \ + other char   both characters
RECURSIVE ParseTemplate(_, _, _)
ParseTemplate(repl, i, m) ==
    LET Raise == [raises |-> TRUE, out |-> <<>>]
        Then(piece, j) ==
            LET rest == ParseTemplate(repl, j, m)
            IN  IF rest.raises THEN Raise
                ELSE [raises |-> FALSE, out |-> piece \o rest.out]
    IN  IF i > Len(repl) THEN [raises |-> FALSE, out |-> <<>>]
        ELSE IF repl[i] # BACKSLASH THEN Then(<<repl[i]>>, i + 1)
        ELSE IF i = Len(repl) THEN Raise
        ELSE LET c == repl[i + 1]
             IN  CASE c = "g" ->
                        LET close == GroupNameEnd(repl, i + 3)
                        IN  IF /\ HasAt(repl, i + 2, <<"<">>)
                               /\ close > i + 3
                               /\ \A k \in (i + 3)..(close - 1) : repl[k] = "0"
                            THEN Then(m, close + 1)
                            ELSE Raise
                   [] c = "0" -> Then(<<NUL>>, OctalEnd(repl, i + 2))
                   [] c \in EscapeChars -> Then(<<Escapes(c)>>, i + 2)
                   [] c \in AsciiLetters \cup Digits -> Raise
                   [] OTHER -> Then(<<BACKSLASH, c>>, i + 2)

\* Whether re.sub raises re.error on the replacement var_value.
TemplateRaises(repl) == ParseTemplate(repl, 1, <<>>).raises

\* The index after the match of \[\[\s*key\s*\]\] that starts at index i, 0
\* if there is none.  The first \s* is greedy and gives characters back when
\* the key itself starts with white space; ]] ends the second one.
KeyMatchEnd(s, i, key) ==
    IF ~HasAt(s, i, OPEN) THEN 0
    ELSE LET p == i + 2
             starts == {q \in p..SkipSpaces(s, p) :
                           /\ HasAt(s, q, key)
                           /\ HasAt(s, SkipSpaces(s, q + Len(key)), CLOSE)}
         IN  IF starts = {} THEN 0
             ELSE SkipSpaces(s, Max(starts) + Len(key)) + 2

\* What re.sub puts in the place of the match m.
Replacement(repl, m) == ParseTemplate(repl, 1, m).out

\* re.sub(pattern of key, repl, s) from index i on, for a template that
\* parses: every leftmost non-overlapping match is replaced, in one scan of s.
RECURSIVE ReSub(_, _, _, _)
ReSub(s, i, key, repl) ==
    IF i > Len(s) THEN <<>>
    ELSE LET e == KeyMatchEnd(s, i, key)
         IN  IF e = 0 THEN <<s[i]>> \o ReSub(s, i + 1, key, repl)
             ELSE Replacement(repl, SubSeq(s, i, e - 1)) \o ReSub(s, e, key, repl)

Returned(t) == [raised |-> FALSE, isNone |-> t.isNone, chars |-> t.chars]

Raised == [raised |-> TRUE, isNone |-> FALSE, chars |-> <<>>]

Str(chars) == [isNone |-> FALSE, chars |-> chars]

None == [isNone |-> TRUE, chars |-> <<>>]

\* The for loop of substitute_variables from the k-th item on.
RECURSIVE SubstituteLoop(_, _, _)
SubstituteLoop(s, ctx, k) ==
    IF k > Len(ctx) THEN Returned(Str(s))
    ELSE IF TemplateRaises(ctx[k].value) THEN Raised
    ELSE SubstituteLoop(ReSub(s, 1, ctx[k].key, ctx[k].value), ctx, k + 1)

\* Fault variant of SubstituteVariables: without the guard of its first line
\* (re.sub raises TypeError on None).
SubstituteVariablesNoGuard(t, ctx) ==
    IF t.isNone THEN Raised ELSE SubstituteLoop(t.chars, ctx, 1)

SubstituteVariables(t, ctx) ==
    IF t.isNone \/ t.chars = <<>> \/ ctx = <<>> THEN Returned(t)
    ELSE SubstituteLoop(t.chars, ctx, 1)

(***************************************************************************)
(* The inputs of the variable engine.                                      *)
(***************************************************************************)
\* The pieces a text is put together from: the placeholders [[a]] and
\* [[ b ]], double and single brackets, a word and a non-word character.
TextPieces ==
    { <<"[", "[", "a", "]", "]">>,
      <<"[", "[", " ", "b", " ", "]", "]">>,
      OPEN, CLOSE, <<"[">>, <<"]">>, <<"a">>, <<"-">> }

RECURSIVE Concat(_)
Concat(ps) == IF ps = <<>> THEN <<>> ELSE Head(ps) \o Concat(Tail(ps))

\* Every text of at most MaxPieces pieces, and None.
TextInputs ==
    {None} \cup
    {Str(Concat(ps)) : ps \in UNION {[1..n -> TextPieces] : n \in 0..MaxPieces}}

ContextKeys == { <<"a">>, <<"b">> }

\* The values a key is given: a plain word, the placeholder of b, a
\* template that refers to the whole match, and a lone backslash.
ContextValues ==
    { <<"X">>,
      <<"[", "[", "b", "]", "]">>,
      <<BACKSLASH, "g", "<", "0", ">">>,
      <<BACKSLASH>> }

Keys(ctx) == {ctx[k].key : k \in 1..Len(ctx)}

\* Every dict of at most MaxKeys keys, as the sequence of its items.
ContextInputs ==
    {ctx \in UNION {[1..n -> [key : ContextKeys, value : ContextValues]] :
                       n \in 0..MaxKeys} :
        \A j, k \in 1..Len(ctx) : j # k => ctx[j].key # ctx[k].key}

(***************************************************************************)
(* The variable engine as a state machine: the inputs are drawn in the     *)
(* initial state and each action is one call.                              *)
(***************************************************************************)
\* No folder shown yet.
NotRendered == [done |-> FALSE, selected |-> <<>>, path |-> <<>>, node |-> 0]

TreeIdle ==
    /\ records = <<>>
    /\ tree = <<>>
    /\ built = FALSE
    /\ allPaths = <<>>
    /\ rendered_folder = NotRendered

StoreIdle ==
    /\ db = <<>>
    /\ selected_prompt_id = 0
    /\ prompt_selected_folder_path = <<>>
    /\ formOutcome = "none"
    /\ folder_path = [isNone |-> TRUE, chars |-> <<>>]
    /\ queryResult = <<>>

ChatIdle ==
    /\ view = "home"
    /\ chat_stage = "absent"
    /\ next_chat_stage = "absent"
    /\ active_prompt = 0
    /\ active_card = 0
    /\ current_messages_data = <<>>
    /\ current_chat_session_id = 0
    /\ editing_message_index = 0
    /\ setup_chat_provider = "None"
    /\ setup_chat_model = "None"
    /\ variable_values = <<>>
    /\ llm_request = <<>>
    /\ live_prompts = {}
    /\ live_cards = {}

\* No save_chat_messages call made yet.
NoCall == [called |-> FALSE, session_id |-> 0, messages |-> <<>>,
           returned |-> <<>>]

MessagesIdle ==
    /\ chat_sessions = <<>>
    /\ chat_messages = <<>>
    /\ save_call = NoCall

AppIdle == ChatIdle /\ MessagesIdle

VarInit ==
    /\ text \in TextInputs
    /\ context \in ContextInputs
    /\ pc = "input"
    /\ extracted = <<>>
    /\ substituted = Returned(None)
    /\ TreeIdle
    /\ StoreIdle
    /\ AppIdle

\* variables = extract_variables(text)
CallExtract ==
    /\ pc = "input"
    /\ extracted' = ExtractVariables(text)
    /\ pc' = "extracted"
    /\ UNCHANGED <<text, context, substituted, treeVars, storeVars, appVars>>

\* result = substitute_variables(text, context)
CallSubstitute ==
    /\ pc = "input"
    /\ substituted' = SubstituteVariables(text, context)
    /\ pc' = "substituted"
    /\ UNCHANGED <<text, context, extracted, treeVars, storeVars, appVars>>

\* extract_variables(result), for a result that was returned
CallExtractOnResult ==
    /\ pc = "substituted"
    /\ ~substituted.raised
    /\ extracted' = ExtractVariables([isNone |-> substituted.isNone,
                                      chars |-> substituted.chars])
    /\ pc' = "roundtrip"
    /\ UNCHANGED <<text, context, substituted, treeVars, storeVars, appVars>>

VarNext == CallExtract \/ CallSubstitute \/ CallExtractOnResult

VarSpec == VarInit /\ [][VarNext]_vars

(***************************************************************************)
(* Properties of the variable engine.                                      *)
(***************************************************************************)
LoopRan == ~text.isNone /\ text.chars # <<>> /\ context # <<>>

\* Which characters of ReSub(s, i, key, repl) were inserted as a value, given
\* which characters of s were (marks).
RECURSIVE SubMarks(_, _, _, _, _)
SubMarks(s, marks, i, key, repl) ==
    IF i > Len(s) THEN <<>>
    ELSE LET e == KeyMatchEnd(s, i, key)
         IN  IF e = 0 THEN <<marks[i]>> \o SubMarks(s, marks, i + 1, key, repl)
             ELSE [k \in 1..Len(Replacement(repl, SubSeq(s, i, e - 1))) |-> TRUE]
                      \o SubMarks(s, marks, e, key, repl)

\* Whether a match that re.sub replaces for key, from index i on, holds a
\* character that was inserted as a value.
RECURSIVE ReplacesInserted(_, _, _, _)
ReplacesInserted(s, marks, i, key) ==
    IF i > Len(s) THEN FALSE
    ELSE LET e == KeyMatchEnd(s, i, key)
         IN  IF e = 0 THEN ReplacesInserted(s, marks, i + 1, key)
             ELSE \/ \E j \in i..(e - 1) : marks[j]
                  \/ ReplacesInserted(s, marks, e, key)

\* Whether some pass of the loop, from the k-th item on, replaces text that
\* an earlier pass inserted.
RECURSIVE Rescanned(_, _, _, _)
Rescanned(s, marks, ctx, k) ==
    IF k > Len(ctx) THEN FALSE
    ELSE \/ ReplacesInserted(s, marks, 1, ctx[k].key)
         \/ Rescanned(ReSub(s, 1, ctx[k].key, ctx[k].value),
                      SubMarks(s, marks, 1, ctx[k].key, ctx[k].value),
                      ctx, k + 1)

\* C1: substitution is single-pass per variable: no pass of
\* substitute_variables replaces text that was inserted as the value of
\* another key.
C1_SinglePass ==
    (pc = "substituted" /\ ~substituted.raised /\ LoopRan)
        => ~Rescanned(text.chars, [k \in 1..Len(text.chars) |-> FALSE], context, 1)

\* re.sub with the value put in character for character.
RECURSIVE LiteralSub(_, _, _, _)
LiteralSub(s, i, key, value) ==
    IF i > Len(s) THEN <<>>
    ELSE LET e == KeyMatchEnd(s, i, key)
         IN  IF e = 0 THEN <<s[i]>> \o LiteralSub(s, i + 1, key, value)
             ELSE value \o LiteralSub(s, e, key, value)

RECURSIVE LiteralLoop(_, _, _)
LiteralLoop(s, ctx, k) ==
    IF k > Len(ctx) THEN s
    ELSE LiteralLoop(LiteralSub(s, 1, ctx[k].key, ctx[k].value), ctx, k + 1)

\* C2: every replaced placeholder is replaced by exactly the value of its key,
\* character for character: a returned result is the text with the values put
\* in literally.
C2_LiteralValue ==
    (pc = "substituted" /\ ~substituted.raised /\ ~text.isNone)
        => substituted.chars = LiteralLoop(text.chars, context, 1)

\* C3: extract_variables and substitute_variables never raise: every call
\* returns a value.
C3_NeverRaises ==
    pc \in {"substituted", "roundtrip"} => ~substituted.raised

HasBracket(value) == \E k \in 1..Len(value) : value[k] \in {"[", "]"}

\* C4: round trip: when every variable of the text is a key of the context and
\* no value holds a bracket, the variables of the substituted text hold none
\* of the substituted names.
C4_RoundTrip ==
    (/\ pc = "roundtrip"
     /\ Range(ExtractVariables(text)) \subseteq Keys(context)
     /\ \A k \in 1..Len(context) : ~HasBracket(context[k].value))
        => Range(extracted) \cap Range(ExtractVariables(text)) = {}

\* The orders the items of ctx can be iterated in.
Orders(ctx) == {other \in ContextInputs : Range(other) = Range(ctx)}

\* C5: the result of substitute_variables does not depend on the order in
\* which the keys of the context are processed.
C5_OrderIndependent ==
    pc = "substituted"
        => \A other \in Orders(context) :
               SubstituteVariables(text, other) = substituted

\* The placeholders of s, from index i on, whose name is not in keys: each as
\* the text it is written as, in order.
RECURSIVE OtherPlaceholders(_, _, _)
OtherPlaceholders(s, i, keys) ==
    IF i > Len(s) THEN <<>>
    ELSE LET m == VariableMatch(s, i)
         IN  IF ~m.found THEN OtherPlaceholders(s, i + 1, keys)
             ELSE IF m.name \in keys THEN OtherPlaceholders(s, m.end, keys)
             ELSE <<SubSeq(s, i, m.end - 1)>> \o OtherPlaceholders(s, m.end, keys)

\* a is b with some elements left out.
RECURSIVE IsSubsequence(_, _)
IsSubsequence(a, b) ==
    IF a = <<>> THEN TRUE
    ELSE IF b = <<>> THEN FALSE
    ELSE IF Head(a) = Head(b) THEN IsSubsequence(Tail(a), Tail(b))
    ELSE IsSubsequence(a, Tail(b))

PlaceholdersKept ==
    IsSubsequence(OtherPlaceholders(text.chars, 1, Keys(context)),
                  OtherPlaceholders(substituted.chars, 1, Keys(context)))

\* C6: every placeholder of the text whose name is not a key of the context
\* is in the output, unchanged and in the same order, whatever the other
\* keys and values are.
C6_MissingKeyKept ==
    (/\ pc = "substituted"
     /\ ~text.isNone
     /\ OtherPlaceholders(text.chars, 1, Keys(context)) # <<>>)
        => (~substituted.raised /\ PlaceholdersKept)

\* The same for the calls that return.
MissingKeyKeptIfReturned ==
    (pc = "substituted" /\ ~substituted.raised) => PlaceholdersKept

\* C7: passthrough: with an empty context, or with an empty or None text,
\* substitute_variables returns the text unchanged.
C7_Passthrough ==
    (pc = "substituted" /\ (context = <<>> \/ text.isNone \/ text.chars = <<>>))
        => substituted = Returned(text)

C7_Witness ==
    /\ pc = "substituted"
    /\ text.isNone
    /\ \E k \in 1..Len(context) : TemplateRaises(context[k].value)
    /\ substituted = Returned(None)

\* C8: the list extract_variables returns is strictly ascending: sorted, and
\* without duplicates.
C8_SortedDistinct ==
    pc \in {"extracted", "roundtrip"}
        => \A j, k \in 1..Len(extracted) :
               j < k => StrLess(extracted[j], extracted[k])

C8_Witness ==
    /\ pc = "extracted"
    /\ FindAll(text.chars, 1) = << <<"b">>, <<"a">>, <<"b">> >>
    /\ extracted = << <<"a">>, <<"b">> >>

\* The names v for which s holds [[, white space or none, v, white space or
\* none, ]], v being one or more word characters.
WrittenVariables(s) ==
    {SubSeq(s, p, w) : <<p, w>> \in
        {pw \in (1..Len(s)) \X (1..Len(s)) :
            /\ pw[1] <= pw[2]
            /\ \A k \in pw[1]..pw[2] : IsWord(s[k])
            /\ \E i \in 1..pw[1], e \in pw[2]..Len(s) :
                  /\ HasAt(s, i, OPEN)
                  /\ i + 2 <= pw[1]
                  /\ \A k \in (i + 2)..(pw[1] - 1) : IsSpace(s[k])
                  /\ pw[2] < e
                  /\ \A k \in (pw[2] + 1)..(e - 1) : IsSpace(s[k])
                  /\ HasAt(s, e, CLOSE)}}

\* C9: extract_variables returns exactly the names written as [[v]] with
\* optional white space around v; single or unmatched brackets and names with
\* a non-word character give no variable.
C9_ExactlyWritten ==
    pc = "extracted" => Range(extracted) = WrittenVariables(text.chars)

C9_Witness ==
    /\ pc = "extracted"
    /\ text.chars = <<"[", "[", " ", "b", " ", "]", "]", "[", "[", "a">>
    /\ extracted = << <<"b">> >>

(***************************************************************************)
(* get_folder_structure (prompt_view.py) and get_card_folder_structure     *)
(* (character_view.py), which differ only in the name of the item list.    *)
(* The nested dicts are modelled as the sequence of the nodes create_node  *)
(* allocated: node 1 is root_node, and the children map of node n holds    *)
(* the nodes whose parent is n, keyed by their name.                       *)
(***************************************************************************)
SLASH == "/"

\* s.lstrip("/")
RECURSIVE LStrip(_)
LStrip(s) == IF s # <<>> /\ Head(s) = SLASH THEN LStrip(Tail(s)) ELSE s

\* s.rstrip("/")
RECURSIVE RStrip(_)
RStrip(s) ==
    IF s # <<>> /\ s[Len(s)] = SLASH THEN RStrip(SubSeq(s, 1, Len(s) - 1)) ELSE s

\* s.strip("/")
Strip(s) == RStrip(LStrip(s))

\* s.split("/"): the pieces between the separators, empty ones included;
\* cur is the piece being read.
RECURSIVE SplitFrom(_, _)
SplitFrom(s, cur) ==
    IF s = <<>> THEN <<cur>>
    ELSE IF Head(s) = SLASH THEN <<cur>> \o SplitFrom(Tail(s), <<>>)
    ELSE SplitFrom(Tail(s), Append(cur, Head(s)))

Split(s) == SplitFrom(s, <<>>)

\* Fault variant of Parts: without the "if part" filter.
PartsUnfiltered(folder) == Split(Strip(folder))

\* [part for part in folder_path.strip("/").split("/") if part]
Parts(folder) == SelectSeq(Split(Strip(folder)), LAMBDA part : part # <<>>)

\* create_node()
CreateNode(parent, name) == [parent |-> parent, name |-> name, prompts |-> <<>>]

RootNode == 1

\* The nodes in the children map of node n under the key name.
ChildrenNamed(tr, n, name) ==
    {c \in 1..Len(tr) : tr[c].parent = n /\ tr[c].name = name}

\* Fault variant of GetChild: a new node on every access.
GetChildAlwaysNew(tr, n, name) ==
    [tree |-> Append(tr, CreateNode(n, name)), node |-> Len(tr) + 1]

\* current_children_map[part] on the defaultdict of node n: the child, made by
\* create_node when the key is missing.
GetChild(tr, n, name) ==
    IF ChildrenNamed(tr, n, name) # {}
    THEN [tree |-> tr, node |-> CHOOSE c \in ChildrenNamed(tr, n, name) : TRUE]
    ELSE [tree |-> Append(tr, CreateNode(n, name)), node |-> Len(tr) + 1]

\* Fault variant of AppendPrompt: the item list is replaced, not appended to.
AppendPromptReplacing(tr, n, prompt) ==
    [tr EXCEPT ![n].prompts = <<prompt>>]

\* node["_prompts_"].append(prompt)
AppendPrompt(tr, n, prompt) ==
    [tr EXCEPT ![n].prompts = Append(@, prompt)]

\* Fault variant of WalkParts: the prompt is appended to every node on the way.
RECURSIVE WalkPartsAppendAll(_, _, _, _, _)
WalkPartsAppendAll(tr, n, parts, i, prompt) ==
    LET got == GetChild(tr, n, parts[i])
        appended == AppendPrompt(got.tree, got.node, prompt)
    IN  IF i = Len(parts) THEN appended
        ELSE WalkPartsAppendAll(appended, got.node, parts, i + 1, prompt)

\* for i, part in enumerate(parts), from the i-th part on, n being the node
\* whose children map current_children_map is.
RECURSIVE WalkParts(_, _, _, _, _)
WalkParts(tr, n, parts, i, prompt) ==
    LET got == GetChild(tr, n, parts[i])
    IN  IF i = Len(parts) THEN AppendPrompt(got.tree, got.node, prompt)
        ELSE WalkParts(got.tree, got.node, parts, i + 1, prompt)

\* The body of "for prompt in prompts" for the prompt at index r of prompts.
PlacePrompt(tr, folder, r) ==
    IF Parts(folder) = <<>> THEN AppendPrompt(tr, RootNode, r)
    ELSE WalkParts(tr, RootNode, Parts(folder), 1, r)

\* The loop over prompts[r..], a prompt being named by its index.
RECURSIVE PlaceFrom(_, _, _)
PlaceFrom(tr, prompts, r) ==
    IF r > Len(prompts) THEN tr
    ELSE PlaceFrom(PlacePrompt(tr, prompts[r], r), prompts, r + 1)

GetFolderStructure(prompts) == PlaceFrom(<<CreateNode(0, <<>>)>>, prompts, 1)

(***************************************************************************)
(* get_all_paths and all_folder_paths (render_prompt_view).                *)
(***************************************************************************)
\* new_p = f"{current_p}/{name}" if current_p else name
NewPath(current_p, name) ==
    IF current_p # <<>> THEN current_p \o <<SLASH>> \o name ELSE name

\* Fault variant of PathsFrom: the children of the node are listed, their own
\* children are not.
RECURSIVE PathsFromNoDescent(_, _, _, _)
PathsFromNoDescent(tr, n, current_p, k) ==
    IF k > Len(tr) THEN <<>>
    ELSE IF tr[k].parent # n THEN PathsFromNoDescent(tr, n, current_p, k + 1)
    ELSE <<NewPath(current_p, tr[k].name)>>
             \o PathsFromNoDescent(tr, n, current_p, k + 1)

\* What get_all_paths(node n, current_p, paths_list) appends to paths_list,
\* for the children of n from node k on.  A children map is iterated in
\* insertion order, which is the order the nodes were allocated in.
RECURSIVE PathsFrom(_, _, _, _)
PathsFrom(tr, n, current_p, k) ==
    IF k > Len(tr) THEN <<>>
    ELSE IF tr[k].parent # n THEN PathsFrom(tr, n, current_p, k + 1)
    ELSE <<NewPath(current_p, tr[k].name)>>
             \o PathsFrom(tr, k, NewPath(current_p, tr[k].name), 1)
             \o PathsFrom(tr, n, current_p, k + 1)

\* Fault variant of AllFolderPaths: without sorted(list(set(...))).
AllFolderPathsAsFound(tr) == << <<>> >> \o PathsFrom(tr, RootNode, <<>>, 1)

AllFolderPaths(tr) ==
    SortedList(Range(<< <<>> >> \o PathsFrom(tr, RootNode, <<>>, 1)))

(***************************************************************************)
(* render_prompt_view from the folder selectbox to the folder contents.    *)
(***************************************************************************)
\* [part for part in current_folder_display_path.split("/") if part]
PathParts(path) == SelectSeq(Split(path), LAMBDA part : part # <<>>)

\* Fault variant of NavigateFrom: current_node["children"][part] without the
\* test "part in current_node['children']".
RECURSIVE NavigateFromByIndexing(_, _, _, _)
NavigateFromByIndexing(tr, n, parts, i) ==
    IF i > Len(parts) THEN [tree |-> tr, node |-> n, valid |-> TRUE]
    ELSE NavigateFromByIndexing(GetChild(tr, n, parts[i]).tree,
                                GetChild(tr, n, parts[i]).node, parts, i + 1)

\* "for part in path_parts" from the i-th part on, n being current_node.
RECURSIVE NavigateFrom(_, _, _, _)
NavigateFrom(tr, n, parts, i) ==
    IF i > Len(parts) THEN [tree |-> tr, node |-> n, valid |-> TRUE]
    ELSE IF ChildrenNamed(tr, n, parts[i]) # {}
    THEN NavigateFrom(GetChild(tr, n, parts[i]).tree,
                      GetChild(tr, n, parts[i]).node, parts, i + 1)
    ELSE [tree |-> tr, node |-> RootNode, valid |-> FALSE]

\* The selected path after the selectbox: "" if all_folder_paths.index raises.
JumpPath(paths, path) == IF path \in Range(paths) THEN path ELSE <<>>

\* Fault variant of RenderFolder: the selected path is taken as it is and
\* followed by indexing the children maps.
RenderFolderByIndexing(tr, paths, path) ==
    LET nav == NavigateFromByIndexing(tr, RootNode, PathParts(path), 1)
    IN  [tree |-> nav.tree, node |-> nav.node, path |-> path]

\* The tree, the node shown and prompt_selected_folder_path once the folder
\* contents are shown.
RenderFolder(tr, paths, path) ==
    LET nav == NavigateFrom(tr, RootNode, PathParts(JumpPath(paths, path)), 1)
    IN  [tree |-> nav.tree,
         node |-> nav.node,
         path |-> IF nav.valid THEN JumpPath(paths, path) ELSE <<>>]

\* What prompt_selected_folder_path may hold when the page is rendered.
SelectedPaths ==
    {<<>>, <<"a">>, <<"a", SLASH, "b">>, <<"a", SLASH, SLASH, "b">>}

(***************************************************************************)
(* The tree builder as a state machine: the record list is drawn in the    *)
(* initial state.                                                          *)
(***************************************************************************)
\* The folder strings of the records: "", "/", "///", "a", "/a/", "a/b",
\* "a//b", "b/a" and "a/b/a".
FolderChoices ==
    { <<>>, <<SLASH>>, <<SLASH, SLASH, SLASH>>,
      <<"a">>, <<SLASH, "a", SLASH>>,
      <<"a", SLASH, "b">>, <<"a", SLASH, SLASH, "b">>,
      <<"b", SLASH, "a">>, <<"a", SLASH, "b", SLASH, "a">> }

RecordInputs == UNION {[1..n -> FolderChoices] : n \in 0..MaxRecords}

VarIdle ==
    /\ text = None
    /\ context = <<>>
    /\ pc = "input"
    /\ extracted = <<>>
    /\ substituted = Returned(None)

TreeInit ==
    /\ records \in RecordInputs
    /\ tree = <<>>
    /\ built = FALSE
    /\ allPaths = <<>>
    /\ rendered_folder = NotRendered
    /\ VarIdle
    /\ StoreIdle
    /\ AppIdle

\* full_folder_tree = get_folder_structure(all_prompts)
CallGetFolderStructure ==
    /\ ~built
    /\ tree' = GetFolderStructure(records)
    /\ built' = TRUE
    /\ UNCHANGED <<records, allPaths, rendered_folder, veVars, storeVars, appVars>>

\* all_folder_paths = [""]; get_all_paths(full_folder_tree, "", ...);
\* all_folder_paths = sorted(list(set(all_folder_paths)))
CallGetAllPaths ==
    /\ built
    /\ allPaths = <<>>
    /\ allPaths' = AllFolderPaths(tree)
    /\ UNCHANGED <<records, tree, built, rendered_folder, veVars, storeVars,
                   appVars>>

\* The rest of the render, prompt_selected_folder_path holding some path
NavigateTree ==
    \E path \in SelectedPaths :
        /\ allPaths # <<>>
        /\ ~rendered_folder.done
        /\ tree' = RenderFolder(tree, allPaths, path).tree
        /\ rendered_folder' = [done |-> TRUE,
                               selected |-> path,
                               path |-> RenderFolder(tree, allPaths, path).path,
                               node |-> RenderFolder(tree, allPaths, path).node]
        /\ UNCHANGED <<records, built, allPaths, veVars, storeVars, appVars>>

TreeNext == CallGetFolderStructure \/ CallGetAllPaths \/ NavigateTree

TreeSpec == TreeInit /\ [][TreeNext]_vars

(***************************************************************************)
(* Properties of the tree builder.                                         *)
(***************************************************************************)
\* The normalized folder path: the maximal runs of characters other than "/",
\* in order; cur is the run being read.
RECURSIVE SegmentsFrom(_, _)
SegmentsFrom(s, cur) ==
    IF s = <<>> THEN (IF cur = <<>> THEN <<>> ELSE <<cur>>)
    ELSE IF Head(s) # SLASH THEN SegmentsFrom(Tail(s), Append(cur, Head(s)))
    ELSE (IF cur = <<>> THEN <<>> ELSE <<cur>>) \o SegmentsFrom(Tail(s), <<>>)

Segments(folder) == SegmentsFrom(folder, <<>>)

\* The nodes reached from node n by descending the segments segs[i..].
RECURSIVE Descend(_, _, _, _)
Descend(tr, n, segs, i) ==
    IF i > Len(segs) THEN {n}
    ELSE UNION {Descend(tr, c, segs, i + 1) : c \in ChildrenNamed(tr, n, segs[i])}

\* The nodes whose item list holds record r.
Holders(tr, r) == {n \in 1..Len(tr) : r \in Range(tr[n].prompts)}

\* C10: every record is in the item list of exactly one node, once, and that
\* node is the one reached from the root by descending the segments of the
\* record's normalized folder path; no other node holds it.
C10_OneNodePerRecord ==
    built =>
        \A r \in 1..Len(records) :
            /\ Cardinality(Holders(tree, r)) = 1
            /\ Holders(tree, r) = Descend(tree, RootNode, Segments(records[r]), 1)
            /\ \A n \in Holders(tree, r) :
                   Cardinality({k \in 1..Len(tree[n].prompts) :
                                   tree[n].prompts[k] = r}) = 1

C10_Witness ==
    /\ built
    /\ Len(tree) = 4
    /\ \E r1, r2 \in 1..Len(records) :
           /\ records[r1] = <<SLASH, "a", SLASH>>
           /\ records[r2] = <<"a", SLASH, "b", SLASH, "a">>
           /\ Holders(tree, r1) # Holders(tree, r2)

\* The segment names from the root down to node n.
RECURSIVE PathOf(_, _)
PathOf(tr, n) ==
    IF n = RootNode THEN <<>> ELSE Append(PathOf(tr, tr[n].parent), tr[n].name)

\* The non-empty prefixes, by segments, of the normalized paths of the records.
SegmentPrefixes(recs) ==
    UNION {{SubSeq(Segments(recs[r]), 1, k) : k \in 1..Len(Segments(recs[r]))} :
              r \in 1..Len(recs)}

\* C11: no phantom and no duplicate folder levels: the nodes below the root
\* are exactly the non-empty segment-prefixes of the records' normalized
\* paths, one node each, and no node has an empty name.
C11_NoPhantomNoDuplicate ==
    built =>
        /\ {PathOf(tree, n) : n \in 2..Len(tree)} = SegmentPrefixes(records)
        /\ \A n, m \in 1..Len(tree) : PathOf(tree, n) = PathOf(tree, m) => n = m
        /\ \A n \in 2..Len(tree) : tree[n].name # <<>>

C11_Witness ==
    /\ built
    /\ Len(tree) = 3
    /\ \E r1, r2 \in 1..Len(records) :
           /\ r1 # r2
           /\ records[r1] = <<"a", SLASH, SLASH, "b">>
           /\ records[r2] = <<"a", SLASH, "b">>

OnlySlashes(folder) == \A k \in 1..Len(folder) : folder[k] = SLASH

\* C12: a record whose folder is empty or only separators is an item of the
\* root node and brings no child node: every node below the root is on the
\* path of a record with a segment.
C12_RootPlacement ==
    built =>
        /\ \A r \in 1..Len(records) :
               OnlySlashes(records[r]) => Holders(tree, r) = {RootNode}
        /\ \A n \in 2..Len(tree) :
               \E r \in 1..Len(records) :
                   /\ ~OnlySlashes(records[r])
                   /\ Len(PathOf(tree, n)) <= Len(Segments(records[r]))
                   /\ PathOf(tree, n)
                          = SubSeq(Segments(records[r]), 1, Len(PathOf(tree, n)))

C12_Witness ==
    /\ built
    /\ Len(tree) = 1
    /\ records = << <<>>, <<SLASH>>, <<SLASH, SLASH, SLASH>> >>
    /\ tree[RootNode].prompts = <<1, 2, 3>>

\* The tree as which nodes exist and which records each holds, a record of
\* the list at position k being named by name[k].
Shape(tr, name) ==
    {<<PathOf(tr, n), {name[tr[n].prompts[k]] : k \in 1..Len(tr[n].prompts)}>> :
        n \in 1..Len(tr)}

Permutations(n) ==
    {f \in [1..n -> 1..n] : \A j, k \in 1..n : j # k => f[j] # f[k]}

\* C13: the tree is independent of the order of the records: every
\* permutation of the list gives the same nodes and the same items in each.
C13_OrderIndependent ==
    built =>
        \A f \in Permutations(Len(records)) :
            Shape(GetFolderStructure([k \in 1..Len(records) |-> records[f[k]]]), f)
                = Shape(tree, [k \in 1..Len(records) |-> k])

C13_Witness ==
    /\ built
    /\ records = << <<"b", SLASH, "a">>, <<"a">>, <<"a">> >>
    /\ tree[3].prompts = <<1>>
    /\ tree[4].prompts = <<2, 3>>

\* Whether node a is node n or above it.
RECURSIVE IsAncestor(_, _, _)
IsAncestor(tr, a, n) ==
    IF n = a THEN TRUE
    ELSE IF n = RootNode THEN FALSE
    ELSE IsAncestor(tr, a, tr[n].parent)

IsStrictPrefix(p, q) == Len(p) < Len(q) /\ p = SubSeq(q, 1, Len(p))

\* C14: two records with the same folder path are items of the same node, and
\* when the path of one is a strict prefix by segments of the other's, the
\* node of the longer path is below the node of the shorter one.
C14_SameNodeAndDescendant ==
    built =>
        \A r1, r2 \in 1..Len(records) :
            /\ Segments(records[r1]) = Segments(records[r2])
                   => Holders(tree, r1) = Holders(tree, r2)
            /\ IsStrictPrefix(Segments(records[r1]), Segments(records[r2]))
                   => \A n1 \in Holders(tree, r1), n2 \in Holders(tree, r2) :
                          n1 # n2 /\ IsAncestor(tree, n1, n2)

C14_Witness ==
    /\ built
    /\ \E r1, r2, r3 \in 1..Len(records) :
           /\ records[r1] = <<"a">>
           /\ records[r2] = <<SLASH, "a", SLASH>>
           /\ records[r3] = <<"a", SLASH, "b", SLASH, "a">>
           /\ Holders(tree, r1) = Holders(tree, r2)
           /\ Holders(tree, r3) # Holders(tree, r1)

\* The segments joined with "/".
RECURSIVE Join(_)
Join(segs) ==
    IF segs = <<>> THEN <<>>
    ELSE IF Len(segs) = 1 THEN segs[1]
    ELSE segs[1] \o <<SLASH>> \o Join(Tail(segs))

\* C15: path enumeration is complete and exact: the list holds "" and every
\* segment-prefix of every record's normalized path, joined with "/", and no
\* other path.
C15_PathsComplete ==
    allPaths # <<>> =>
        Range(allPaths) = {<<>>} \cup {Join(p) : p \in SegmentPrefixes(records)}

C15_Witness ==
    /\ allPaths = << <<>>, <<"a">>, <<"a", SLASH, "b">>,
                     <<"a", SLASH, "b", SLASH, "a">> >>
    /\ records = << <<"a", SLASH, "b", SLASH, "a">> >>

\* C16: the path list has no duplicates, is sorted and starts with the root
\* path ""; for no records the tree is a root without items or children and
\* the list is [""].
C16_PathsSortedRootFirst ==
    allPaths # <<>> =>
        /\ \A j, k \in 1..Len(allPaths) : j < k => StrLess(allPaths[j], allPaths[k])
        /\ allPaths[1] = <<>>
        /\ records = <<>> =>
               /\ tree = <<CreateNode(0, <<>>)>>
               /\ allPaths = << <<>> >>

C16_Witness ==
    /\ records = << <<"b", SLASH, "a">>, <<"a">> >>
    /\ allPaths = << <<>>, <<"a">>, <<"b">>, <<"b", SLASH, "a">> >>


\* C28: the tree is not changed after it is built: whatever path is selected,
\* one with no node included, the tree after get_all_paths and after the
\* navigation to the folder is the tree get_folder_structure returned.
C28_TreeNotMutated ==
    built => tree = GetFolderStructure(records)

C28_Witness ==
    /\ rendered_folder.done
    /\ rendered_folder.selected = <<"a", SLASH, "b">>
    /\ rendered_folder.node = RootNode
    /\ records = << <<"a">> >>
    /\ Len(tree) = 2

(***************************************************************************)
(* The prompts table (promptbox/db/models.py, on SQLite), the create and   *)
(* edit forms of prompt_view.py and PromptService.get_prompts_by_folder.   *)
(***************************************************************************)
\* s.strip()
RECURSIVE LStripSpaces(_)
LStripSpaces(s) ==
    IF s # <<>> /\ IsSpace(Head(s)) THEN LStripSpaces(Tail(s)) ELSE s

RECURSIVE RStripSpaces(_)
RStripSpaces(s) ==
    IF s # <<>> /\ IsSpace(s[Len(s)])
    THEN RStripSpaces(SubSeq(s, 1, Len(s) - 1)) ELSE s

StripSpaces(s) == RStripSpaces(LStripSpaces(s))

\* folder_val = folder.strip("/").strip(); if not folder_val: folder_val = ""
FolderVal(folder) == StripSpaces(Strip(folder))

\* Whether PromptData(name=..., folder=..., ...) passes validation;
\* instruction tells whether one of the three instructions is filled in.
PromptDataValid(name, folder, instruction) ==
    Len(name) >= 1 /\ Len(folder) >= 1 /\ instruction

\* The ids of the rows with this name (the column is unique).
IdsNamed(rows, name) == {i \in 1..Len(rows) : rows[i].name = name}

\* What SQLite's LIKE compares a character by: ASCII letters without case.
LikeFold(c) == IF c = "A" THEN "a" ELSE c

PERCENT == "%"

UNDERSCORE == "_"

\* s LIKE pat on SQLite, no ESCAPE clause.
RECURSIVE Like(_, _)
Like(s, pat) ==
    IF pat = <<>> THEN s = <<>>
    ELSE IF Head(pat) = PERCENT
         THEN Like(s, Tail(pat)) \/ (s # <<>> /\ Like(Tail(s), pat))
    ELSE IF s = <<>> THEN FALSE
    ELSE IF Head(pat) = UNDERSCORE THEN Like(Tail(s), Tail(pat))
    ELSE LikeFold(Head(s)) = LikeFold(Head(pat)) /\ Like(Tail(s), Tail(pat))

\* Row i before row j under ORDER BY folder, name.
RowBefore(rows, i, j) ==
    \/ StrLess(rows[i].folder, rows[j].folder)
    \/ rows[i].folder = rows[j].folder /\ StrLess(rows[i].name, rows[j].name)

\* The ids S in ORDER BY folder, name.
RECURSIVE OrderBy(_, _)
OrderBy(rows, S) ==
    IF S = {} THEN <<>>
    ELSE LET first == CHOOSE i \in S : \A j \in S \ {i} : RowBefore(rows, i, j)
         IN  <<first>> \o OrderBy(rows, S \ {first})

ALL == <<"A", "l", "l">>

\* PromptService.get_prompts_by_folder
GetPromptsByFolder(rows, path) ==
    IF ~path.isNone /\ path.chars # <<>> /\ path.chars # ALL
    THEN OrderBy(rows, {i \in 1..Len(rows) :
                           Like(rows[i].folder, Append(path.chars, PERCENT))})
    ELSE OrderBy(rows, 1..Len(rows))

\* What is typed into the forms and passed to the query.
FormNames == {<<"p">>, <<"q">>, <<" ">>}

FormFolders ==
    {<<>>, <<SLASH>>, <<SLASH, SLASH>>, <<"a">>, <<"a", "b">>,
     <<"a", SLASH, "b">>, <<SLASH, "A", SLASH>>,
     <<SLASH, "a", SLASH, SLASH, "b", SLASH>>}

QueryPaths ==
    {None, Str(<<>>), Str(ALL), Str(<<"a">>), Str(<<"a", "b">>),
     Str(<<"a", SLASH>>), Str(<<"a", UNDERSCORE>>)}

\* prompt_service.get_all_prompts(): the ids, ORDER BY folder, name
AllPromptIds(rows) == OrderBy(rows, 1..Len(rows))

\* The rerun of render_prompt_view over the rows, the handler having left
\* path in prompt_selected_folder_path: get_all_prompts, the tree, the paths,
\* the selectbox and the navigation to the folder shown.
RenderPromptView(rows, path) ==
    LET recs == [k \in 1..Len(rows) |-> rows[AllPromptIds(rows)[k]].folder]
        full_folder_tree == GetFolderStructure(recs)
        all_folder_paths == AllFolderPaths(full_folder_tree)
        shown == RenderFolder(full_folder_tree, all_folder_paths, path)
    IN  /\ records' = recs
        /\ built' = TRUE
        /\ allPaths' = all_folder_paths
        /\ tree' = shown.tree
        /\ prompt_selected_folder_path' = shown.path
        /\ rendered_folder' = [done |-> TRUE, selected |-> path,
                               path |-> shown.path, node |-> shown.node]

StoreInit ==
    /\ StoreIdle
    /\ VarIdle
    /\ TreeIdle
    /\ AppIdle

\* "Create Prompt" of render_create_form
SubmitCreateForm(name, folder, instruction) ==
    /\ selected_prompt_id = 0
    /\ IF StripSpaces(name) = <<>>
       THEN /\ formOutcome' = "name required"
            /\ UNCHANGED <<db, selected_prompt_id, prompt_selected_folder_path,
                           treeVars>>
       ELSE IF ~PromptDataValid(name, FolderVal(folder), instruction)
       THEN /\ formOutcome' = "validation error"
            /\ UNCHANGED <<db, selected_prompt_id, prompt_selected_folder_path,
                           treeVars>>
       ELSE IF IdsNamed(db, name) # {}
       THEN /\ formOutcome' = "failed"
            /\ UNCHANGED <<db, selected_prompt_id, prompt_selected_folder_path,
                           treeVars>>
       ELSE /\ db' = Append(db, [name |-> name, folder |-> FolderVal(folder)])
            /\ formOutcome' = "created"
            /\ selected_prompt_id' = Len(db) + 1
            /\ RenderPromptView(db', FolderVal(folder))
    /\ UNCHANGED <<folder_path, queryResult, veVars, appVars>>

\* "Save Changes" of render_edit_form, for the selected prompt
SubmitEditForm(name, folder, instruction) ==
    /\ selected_prompt_id # 0
    /\ IF StripSpaces(name) = <<>>
       THEN /\ formOutcome' = "name required"
            /\ UNCHANGED <<db, prompt_selected_folder_path, treeVars>>
       ELSE IF ~PromptDataValid(name, FolderVal(folder), instruction)
       THEN /\ formOutcome' = "validation error"
            /\ UNCHANGED <<db, prompt_selected_folder_path, treeVars>>
       ELSE IF IdsNamed(db, name) \ {selected_prompt_id} # {}
       THEN /\ formOutcome' = "failed"
            /\ UNCHANGED <<db, prompt_selected_folder_path, treeVars>>
       ELSE /\ db' = [db EXCEPT ![selected_prompt_id] =
                         [name |-> name, folder |-> FolderVal(folder)]]
            /\ formOutcome' = "updated"
            /\ RenderPromptView(db', FolderVal(folder))
    /\ UNCHANGED <<selected_prompt_id, folder_path, queryResult, veVars, appVars>>

CreatePrompt ==
    \E name \in FormNames, folder \in FormFolders, instruction \in BOOLEAN :
        SubmitCreateForm(name, folder, instruction)

SavePrompt ==
    \E name \in FormNames, folder \in FormFolders, instruction \in BOOLEAN :
        SubmitEditForm(name, folder, instruction)

\* The button of a prompt in the folder listing
SelectPrompt ==
    \E id \in 1..Len(db) :
        /\ selected_prompt_id' = id
        /\ formOutcome' = "none"
        /\ RenderPromptView(db, prompt_selected_folder_path)
        /\ UNCHANGED <<db, folder_path, queryResult, veVars, appVars>>

\* "Create New Prompt"
CreateNewPrompt ==
    /\ selected_prompt_id # 0
    /\ selected_prompt_id' = 0
    /\ formOutcome' = "none"
    /\ RenderPromptView(db, prompt_selected_folder_path)
    /\ UNCHANGED <<db, folder_path, queryResult, veVars, appVars>>

\* prompt_service.get_prompts_by_folder(folder_path)
CallGetPromptsByFolder ==
    \E path \in QueryPaths :
        /\ folder_path' = path
        /\ queryResult' = GetPromptsByFolder(db, path)
        /\ UNCHANGED <<db, selected_prompt_id, prompt_selected_folder_path,
                       formOutcome, veVars, treeVars, appVars>>

StoreNext ==
    \/ CreatePrompt
    \/ SavePrompt
    \/ SelectPrompt
    \/ CreateNewPrompt

StoreSpec == StoreInit /\ [][StoreNext]_vars

(***************************************************************************)
(* get_prompts_by_folder as a call on a prompts table the forms can leave. *)
(***************************************************************************)
\* The folders and the names the forms store.
StoredFolders == {FolderVal(folder) : folder \in FormFolders} \ {<<>>}

StoredNames == {name \in FormNames : StripSpaces(name) # <<>>}

TableRows ==
    {rows \in UNION {[1..n -> [name : StoredNames, folder : StoredFolders]] :
                        n \in 0..Cardinality(StoredNames)} :
        \A j, k \in 1..Len(rows) : j # k => rows[j].name # rows[k].name}

QueryInit ==
    /\ db \in TableRows
    /\ selected_prompt_id = 0
    /\ prompt_selected_folder_path = <<>>
    /\ formOutcome = "none"
    /\ folder_path = None
    /\ queryResult = <<>>
    /\ VarIdle
    /\ TreeIdle
    /\ AppIdle

QueryNext == CallGetPromptsByFolder

QuerySpec == QueryInit /\ [][QueryNext]_vars

(***************************************************************************)
(* Properties of the prompt store.                                         *)
(***************************************************************************)
\* The ids of the rows in the folder path or in a folder below it.
InFolderOrBelow(rows, path) ==
    {i \in 1..Len(rows) :
        \/ rows[i].folder = path
        \/ /\ Len(rows[i].folder) > Len(path)
           /\ SubSeq(rows[i].folder, 1, Len(path) + 1) = Append(path, SLASH)}

\* C17: get_prompts_by_folder with a non-empty path other than "All" returns
\* exactly the prompts whose folder is the path or starts with the path
\* followed by "/", and no prompt of another folder.
C17_FolderAndSubfolders ==
    [][(/\ CallGetPromptsByFolder
        /\ ~folder_path'.isNone
        /\ folder_path'.chars # <<>>
        /\ folder_path'.chars # ALL)
           => Range(queryResult') = InFolderOrBelow(db', folder_path'.chars)]_vars

\* C20: a create or edit form submitted with a folder field that is empty or
\* only "/" characters, and valid other fields, succeeds and stores the
\* prompt with folder "".
C20_RootFolderStored ==
    [][\A name \in FormNames, folder \in FormFolders :
          (/\ OnlySlashes(folder)
           /\ StripSpaces(name) # <<>>
           /\ IdsNamed(db, name) \ {selected_prompt_id} = {}
           /\ \/ SubmitCreateForm(name, folder, TRUE)
              \/ SubmitEditForm(name, folder, TRUE))
              => /\ formOutcome' \in {"created", "updated"}
                 /\ selected_prompt_id' \in 1..Len(db')
                 /\ db'[selected_prompt_id'] = [name |-> name, folder |-> <<>>]]_vars

\* C21: after a prompt is created or saved, the folder the page shows on the
\* next render is the node whose item list holds the prompt.
C21_NavigatesToPromptFolder ==
    formOutcome \in {"created", "updated"} =>
        \E k \in 1..Len(records) :
            /\ AllPromptIds(db)[k] = selected_prompt_id
            /\ k \in Range(tree[rendered_folder.node].prompts)

(***************************************************************************)
(* The web application: the sidebar and the routing of app.py, the chat of *)
(* chat_view.py, the sessions page of sessions_view.py and the chat        *)
(* buttons of prompt_view.py and character_view.py.  One action is one     *)
(* click: its handler, then the rerun of the script up to the end of the   *)
(* render.  A session_state key that is not set and one that holds None or *)
(* [] are told apart only where the code does (chat_stage,                 *)
(* next_chat_stage).                                                       *)
(***************************************************************************)
MaxMessages == 3

MaxSessions == 1

Prompts == {1, 2}

Cards == {1}

\* The views main() routes.
Views == {"home", "prompts", "characters", "sessions", "backups", "chat"}

NavTargets == {"home", "prompts", "characters", "sessions", "backups"}

ChatMessageData(role, content, order) ==
    [role |-> role, content |-> content, message_order |-> order]

\* The instructions of the two prompts: prompt 1 has a system instruction
\* without a variable, prompt 2 a system instruction "[[a]]" and a user
\* instruction.
PromptInstructions(p) ==
    IF p = 1
    THEN [system_instruction |-> Str(<<"s">>),
          user_instruction |-> None,
          assistant_instruction |-> None]
    ELSE [system_instruction |-> Str(OPEN \o <<"a">> \o CLOSE),
          user_instruction |-> Str(<<"u">>),
          assistant_instruction |-> None]

\* x or ""
OrEmpty(t) == IF t.isNone THEN <<>> ELSE t.chars

\* initial_text_content of render_chat_setup_stage for a prompt
InitialTextContent(p) ==
    Str(OrEmpty(PromptInstructions(p).system_instruction)
        \o OrEmpty(PromptInstructions(p).user_instruction)
        \o OrEmpty(PromptInstructions(p).assistant_instruction))

\* One "if prompt_data.x_instruction:" block of
\* initialize_chat_messages_from_item
AddInstruction(acc, role, instruction, ctx) ==
    IF acc.raised \/ instruction.isNone \/ instruction.chars = <<>> THEN acc
    ELSE IF SubstituteVariables(instruction, ctx).raised
    THEN [raised |-> TRUE, messages |-> <<>>, order |-> acc.order]
    ELSE [raised |-> FALSE,
          messages |-> Append(acc.messages,
                              ChatMessageData(role,
                                              SubstituteVariables(instruction, ctx).chars,
                                              acc.order)),
          order |-> acc.order + 1]

\* initialize_chat_messages_from_item(prompt, None, variable_context)
InitializeChatMessagesFromItem(p, ctx) ==
    AddInstruction(
        AddInstruction(
            AddInstruction([raised |-> FALSE, messages |-> <<>>, order |-> 0],
                           "system", PromptInstructions(p).system_instruction, ctx),
            "user", PromptInstructions(p).user_instruction, ctx),
        "assistant", PromptInstructions(p).assistant_instruction, ctx)

\* llm_service.list_available_models(): a provider with one model and a
\* provider whose list of models came back empty.
Providers == <<"Ollama", "Mistral">>

ModelsFor(provider) == IF provider = "Ollama" THEN <<"m">> ELSE <<>>

\* What is typed into the text input of a variable.
VariableInputs == {<<>>, <<" ">>, <<"X">>, <<BACKSLASH>>}

\* What a user message is edited to.
EditContents == {<<"u">>, <<"e">>}

\* The keys setup_chat_provider, setup_chat_model and the values of the
\* variable inputs var_<name>_setup, as one record.
Setup ==
    [provider |-> setup_chat_provider, model |-> setup_chat_model,
     values |-> variable_values]

\* The three after _clear_chat_transient_state
NoSetup == [provider |-> "None", model |-> "None", values |-> <<>>]

HasItem(ap, ac) == ap # 0 \/ ac # 0

\* The two selectboxes and the variable inputs as the setup page leaves them:
\* a provider that is not offered falls back to the first one, the model to
\* the first model of the provider or None, and a variable that has no input
\* yet gets an empty one.  The page of a card stops at
\* active_card.instructions, after the selectboxes.
RenderedSetup(ap, setup) ==
    LET provider == IF setup.provider \in Range(Providers)
                    THEN setup.provider ELSE Providers[1]
        model == IF setup.model \in Range(ModelsFor(provider)) THEN setup.model
                 ELSE IF ModelsFor(provider) # <<>> THEN ModelsFor(provider)[1]
                 ELSE "None"
        variables == ExtractVariables(InitialTextContent(ap))
        values == IF ap = 0 THEN setup.values
                  ELSE [k \in 1..Len(variables) |->
                           IF /\ k <= Len(setup.values)
                              /\ setup.values[k].key = variables[k]
                           THEN setup.values[k]
                           ELSE [key |-> variables[k], value |-> <<>>]]
    IN  [provider |-> provider, model |-> model, values |-> values]

\* Fault variant of NewMessage: message_order counted from one.
NewMessageFromOne(msgs, role, content) ==
    ChatMessageData(role, content, Len(msgs) + 1)

\* ChatMessageData(role=..., content=..., message_order=len(...))
NewMessage(msgs, role, content) == ChatMessageData(role, content, Len(msgs))

\* What the render of the page leaves in the session state: render_chat_ui
\* sets the default stage, the setup stage its selectboxes and inputs, and
\* the chatting stage, unless a message is being edited, sends a history
\* that ends with a user message to the model, which replies or fails.
Rendered(v, ap, ac, stage, msgs, editing, setup) ==
    IF v # "chat" \/ ~HasItem(ap, ac)
    THEN {[stage |-> stage, messages |-> msgs, setup |-> setup,
           request |-> <<>>]}
    ELSE LET st == IF stage = "absent" THEN "setup" ELSE stage
         IN  IF st = "setup"
             THEN {[stage |-> st, messages |-> msgs,
                    setup |-> RenderedSetup(ap, setup), request |-> <<>>]}
             ELSE IF /\ st = "chatting"
                     /\ editing = 0
                     /\ msgs # <<>>
                     /\ msgs[Len(msgs)].role = "user"
             THEN {[stage |-> st, messages |-> msgs, setup |-> setup,
                    request |-> msgs]} \cup
                  (IF Len(msgs) < MaxMessages
                   THEN {[stage |-> st,
                          messages |-> Append(msgs,
                                              NewMessage(msgs, "assistant",
                                                         <<"r">>)),
                          setup |-> setup, request |-> msgs]}
                   ELSE {})
             ELSE {[stage |-> st, messages |-> msgs, setup |-> setup,
                    request |-> <<>>]}

\* st.rerun() after a handler that left stage, msgs and setup in their keys
Rerun(stage, msgs, setup) ==
    \E r \in Rendered(view', active_prompt', active_card', stage, msgs,
                      editing_message_index', setup) :
        /\ chat_stage' = r.stage
        /\ current_messages_data' = r.messages
        /\ setup_chat_provider' = r.setup.provider
        /\ setup_chat_model' = r.setup.model
        /\ variable_values' = r.setup.values
        /\ llm_request' = r.request

\* Rows in ORDER BY message_order (rows of equal order in the order they were
\* inserted).
RECURSIVE ByMessageOrder(_)
ByMessageOrder(msgs) ==
    IF msgs = <<>> THEN <<>>
    ELSE LET k == CHOOSE i \in 1..Len(msgs) :
                      \A j \in 1..Len(msgs) :
                          \/ msgs[i].message_order < msgs[j].message_order
                          \/ msgs[i].message_order = msgs[j].message_order /\ i <= j
         IN  <<msgs[k]>> \o ByMessageOrder(SubSeq(msgs, 1, k - 1)
                                              \o SubSeq(msgs, k + 1, Len(msgs)))

\* A row of chat_messages
MessageRow(session_id, msg) ==
    [session_id |-> session_id, role |-> msg.role, content |-> msg.content,
     message_order |-> msg.message_order]

\* The rows of a session, ordered by message_order, as message data
StoredMessages(table, session_id) ==
    LET rows == ByMessageOrder(SelectSeq(table,
                                         LAMBDA row : row.session_id = session_id))
    IN  [k \in 1..Len(rows) |->
            ChatMessageData(rows[k].role, rows[k].content, rows[k].message_order)]

\* Fault variant of SaveChatMessages: without the delete of the old rows.
SaveChatMessagesKeepingOld(table, session_id, messages) ==
    table \o [k \in 1..Len(messages) |-> MessageRow(session_id, messages[k])]

\* chat_service.save_chat_messages: the table after it
SaveChatMessages(table, session_id, messages) ==
    SelectSeq(table, LAMBDA row : row.session_id # session_id)
        \o [k \in 1..Len(messages) |-> MessageRow(session_id, messages[k])]

\* _save_current_chat_session: the two tables and current_chat_session_id
\* after it
SaveCurrentChatSession ==
    IF current_messages_data = <<>>
    THEN [sessions |-> chat_sessions, messages |-> chat_messages,
          id |-> current_chat_session_id]
    ELSE IF current_chat_session_id # 0
    THEN [sessions |-> chat_sessions,
          messages |-> SaveChatMessages(chat_messages, current_chat_session_id,
                                        current_messages_data),
          id |-> current_chat_session_id]
    ELSE [sessions |-> Append(chat_sessions,
                              [originating_prompt_id |-> active_prompt,
                               originating_card_id |->
                                   IF active_prompt # 0 THEN 0 ELSE active_card,
                               deleted |-> FALSE]),
          messages |-> SaveChatMessages(chat_messages, Len(chat_sessions) + 1,
                                        current_messages_data),
          id |-> Len(chat_sessions) + 1]

CanSave ==
    \/ current_messages_data = <<>>
    \/ current_chat_session_id # 0
    \/ Len(chat_sessions) < MaxSessions

AppInit ==
    /\ view = "home"
    /\ chat_stage = "absent"
    /\ next_chat_stage = "absent"
    /\ active_prompt = 0
    /\ active_card = 0
    /\ current_messages_data = <<>>
    /\ current_chat_session_id = 0
    /\ editing_message_index = 0
    /\ setup_chat_provider = "None"
    /\ setup_chat_model = "None"
    /\ variable_values = <<>>
    /\ llm_request = <<>>
    /\ chat_sessions = <<>>
    /\ live_prompts = Prompts
    /\ live_cards = Cards
    /\ MessagesIdle
    /\ VarIdle
    /\ TreeIdle
    /\ StoreIdle

\* The five buttons of the sidebar
NavTo(target) ==
    /\ IF view = "chat" /\ current_messages_data # <<>>
       THEN /\ next_chat_stage' = target
            /\ UNCHANGED <<view, active_prompt, active_card,
                           current_chat_session_id, editing_message_index>>
            /\ Rerun("ask_save_dialog", current_messages_data, Setup)
       ELSE IF target = "home"
       THEN /\ view' = "home"
            /\ next_chat_stage' = "absent"
            /\ active_prompt' = 0
            /\ active_card' = 0
            /\ current_chat_session_id' = 0
            /\ editing_message_index' = 0
            /\ Rerun("absent", <<>>, NoSetup)
       ELSE /\ view' = target
            /\ UNCHANGED <<next_chat_stage, active_prompt, active_card,
                           current_chat_session_id, editing_message_index>>
            /\ Rerun(chat_stage, current_messages_data, Setup)
    /\ UNCHANGED <<tableVars, live_prompts, live_cards,
                   veVars, treeVars, storeVars>>

Navigate == \E target \in NavTargets : NavTo(target)

\* "Chat with this Prompt"
ChatWithPrompt ==
    \E p \in live_prompts :
        /\ view = "prompts"
        /\ active_prompt' = p
        /\ active_card' = 0
        /\ view' = "chat"
        /\ current_chat_session_id' = 0
        /\ Rerun("setup", <<>>, Setup)
        /\ UNCHANGED <<next_chat_stage, editing_message_index, tableVars,
                       live_prompts, live_cards, veVars, treeVars, storeVars>>

\* "Delete Prompt", confirmed
DeletePrompt ==
    \E p \in live_prompts :
        /\ view = "prompts"
        /\ live_prompts' = live_prompts \ {p}
        /\ UNCHANGED <<view, next_chat_stage, active_prompt, active_card,
                       current_chat_session_id, editing_message_index>>
        /\ Rerun(chat_stage, current_messages_data, Setup)
        /\ UNCHANGED <<tableVars, live_cards, veVars, treeVars, storeVars>>

\* "Chat with this Character"
ChatWithCard ==
    \E c \in live_cards :
        /\ view = "characters"
        /\ active_card' = c
        /\ active_prompt' = 0
        /\ view' = "chat"
        /\ Rerun("setup", current_messages_data, Setup)
        /\ UNCHANGED <<next_chat_stage, current_chat_session_id,
                       editing_message_index, tableVars, live_prompts,
                       live_cards, veVars, treeVars, storeVars>>

\* "Go Back" of render_chat_ui
GoBack ==
    /\ view = "chat"
    /\ ~HasItem(active_prompt, active_card)
    /\ view' = "prompts"
    /\ UNCHANGED <<next_chat_stage, active_prompt, active_card,
                   current_chat_session_id, editing_message_index>>
    /\ Rerun(chat_stage, current_messages_data, Setup)
    /\ UNCHANGED <<tableVars, live_prompts, live_cards,
                   veVars, treeVars, storeVars>>

InChat(stage) ==
    /\ view = "chat"
    /\ HasItem(active_prompt, active_card)
    /\ chat_stage = stage

\* The setup page as far as its inputs: the page of a card stops before them
\* (active_card.instructions is no attribute of CharacterCardData).
InSetup == InChat("setup") /\ active_prompt # 0

\* The provider selectbox
SelectProvider ==
    \E provider \in Range(Providers) :
        /\ InSetup
        /\ UNCHANGED <<view, active_prompt, active_card, next_chat_stage,
                       current_chat_session_id, editing_message_index>>
        /\ Rerun("setup", current_messages_data,
                 [Setup EXCEPT !.provider = provider])
        /\ UNCHANGED <<tableVars, live_prompts, live_cards,
                       veVars, treeVars, storeVars>>

\* The text input of a variable
FillVariable ==
    \E k \in 1..Len(variable_values), value \in VariableInputs :
        /\ InSetup
        /\ UNCHANGED <<view, active_prompt, active_card, next_chat_stage,
                       current_chat_session_id, editing_message_index>>
        /\ Rerun("setup", current_messages_data,
                 [Setup EXCEPT !.values[k].value = value])
        /\ UNCHANGED <<tableVars, live_prompts, live_cards,
                       veVars, treeVars, storeVars>>

\* variable_values.get(v, "")
ValueOf(values, v) ==
    IF \E k \in 1..Len(values) : values[k].key = v
    THEN values[CHOOSE k \in 1..Len(values) : values[k].key = v].value
    ELSE <<>>

\* Fault variant of SetupFilled: without the check of the variable values.
SetupFilledModelOnly(ap, setup) ==
    /\ setup.provider # "None"
    /\ setup.model # "None"

\* The two checks of "Start Chat"
SetupFilled(ap, setup) ==
    /\ setup.provider # "None"
    /\ setup.model # "None"
    /\ \A v \in Range(ExtractVariables(InitialTextContent(ap))) :
           StripSpaces(ValueOf(setup.values, v)) # <<>>

\* "Start Chat": nothing changes if a check fails or the substitution raises.
StartChat ==
    /\ InSetup
    /\ IF /\ SetupFilled(active_prompt, Setup)
          /\ ~InitializeChatMessagesFromItem(active_prompt, variable_values).raised
       THEN /\ current_chat_session_id' = 0
            /\ editing_message_index' = 0
            /\ UNCHANGED <<view, active_prompt, active_card>>
            /\ Rerun("chatting",
                     InitializeChatMessagesFromItem(active_prompt,
                                                    variable_values).messages,
                     Setup)
       ELSE UNCHANGED <<view, active_prompt, active_card, chat_stage,
                        current_messages_data, current_chat_session_id,
                        editing_message_index, setup_chat_provider,
                        setup_chat_model, variable_values, llm_request>>
    /\ UNCHANGED <<next_chat_stage, tableVars, live_prompts, live_cards,
                   veVars, treeVars, storeVars>>

\* st.chat_input
SendMessage ==
    /\ InChat("chatting")
    /\ editing_message_index = 0
    /\ Len(current_messages_data) < MaxMessages
    /\ UNCHANGED <<view, active_prompt, active_card, editing_message_index>>
    /\ Rerun("chatting",
             Append(current_messages_data,
                    NewMessage(current_messages_data, "user", <<"u">>)),
             Setup)
    /\ UNCHANGED <<next_chat_stage, current_chat_session_id, tableVars,
                   live_prompts, live_cards, veVars, treeVars, storeVars>>

\* The edit button of a user message
EditMessage ==
    \E i \in 1..Len(current_messages_data) :
        /\ InChat("chatting")
        /\ editing_message_index # i
        /\ current_messages_data[i].role = "user"
        /\ editing_message_index' = i
        /\ UNCHANGED <<view, active_prompt, active_card>>
        /\ Rerun("chatting", current_messages_data, Setup)
        /\ UNCHANGED <<next_chat_stage, current_chat_session_id, tableVars,
                       live_prompts, live_cards, veVars, treeVars, storeVars>>

\* Whether the text area and the two buttons of an edit are shown
Editing ==
    /\ InChat("chatting")
    /\ editing_message_index \in 1..Len(current_messages_data)
    /\ current_messages_data[editing_message_index].role = "user"

\* Fault variant of Truncated: the later messages are kept.
NotTruncated(msgs, i, content) == [msgs EXCEPT ![i].content = content]

\* current_messages_data[i].content = edited_content, then
\* current_messages_data[:i+1]
Truncated(msgs, i, content) ==
    SubSeq([msgs EXCEPT ![i].content = content], 1, i)

\* "Save Edit" with the text area holding content
SaveEditAs(content) ==
    /\ Editing
    /\ editing_message_index' = 0
    /\ UNCHANGED <<view, active_prompt, active_card>>
    /\ Rerun("chatting",
             Truncated(current_messages_data, editing_message_index, content),
             Setup)
    /\ UNCHANGED <<next_chat_stage, current_chat_session_id, tableVars,
                   live_prompts, live_cards, veVars, treeVars, storeVars>>

SaveEdit == \E content \in EditContents : SaveEditAs(content)

\* "Cancel Edit"
CancelEdit ==
    /\ Editing
    /\ editing_message_index' = 0
    /\ UNCHANGED <<view, active_prompt, active_card>>
    /\ Rerun("chatting", current_messages_data, Setup)
    /\ UNCHANGED <<next_chat_stage, current_chat_session_id, tableVars,
                   live_prompts, live_cards, veVars, treeVars, storeVars>>

\* "Save Session"
SaveSession ==
    /\ InChat("chatting")
    /\ CanSave
    /\ chat_sessions' = SaveCurrentChatSession.sessions
    /\ chat_messages' = SaveCurrentChatSession.messages
    /\ current_chat_session_id' = SaveCurrentChatSession.id
    /\ UNCHANGED <<view, active_prompt, active_card, editing_message_index>>
    /\ Rerun("chatting", current_messages_data, Setup)
    /\ UNCHANGED <<next_chat_stage, save_call, live_prompts, live_cards,
                   veVars, treeVars, storeVars>>

\* "Change Model" (next = "setup") and "Exit Chat" (next = "prompts")
AskSave(next) ==
    /\ InChat("chatting")
    /\ next_chat_stage' = next
    /\ UNCHANGED <<view, active_prompt, active_card, editing_message_index>>
    /\ Rerun("ask_save_dialog", current_messages_data, Setup)
    /\ UNCHANGED <<current_chat_session_id, tableVars, live_prompts,
                   live_cards, veVars, treeVars, storeVars>>

ChangeModel == AskSave("setup")

ExitChat == AskSave("prompts")

\* The stage the dialog goes on to: st.session_state.get("next_chat_stage",
\* "prompts")
NextStage == IF next_chat_stage = "absent" THEN "prompts" ELSE next_chat_stage

\* "Yes, Save Session" (save) and "No, Discard Changes" of the dialog, with
\* _clear_chat_transient_state
AnswerDialog(save) ==
    /\ InChat("ask_save_dialog")
    /\ IF save
       THEN /\ CanSave
            /\ chat_sessions' = SaveCurrentChatSession.sessions
            /\ chat_messages' = SaveCurrentChatSession.messages
       ELSE UNCHANGED <<chat_sessions, chat_messages>>
    /\ view' = NextStage
    /\ active_prompt' = 0
    /\ active_card' = 0
    /\ current_chat_session_id' = 0
    /\ editing_message_index' = 0
    /\ Rerun(NextStage, <<>>, NoSetup)
    /\ UNCHANGED <<next_chat_stage, save_call, live_prompts, live_cards,
                   veVars, treeVars, storeVars>>

AnswerSave == AnswerDialog(TRUE)

AnswerDiscard == AnswerDialog(FALSE)

\* "Cancel (Stay in Chat)"
AnswerCancel ==
    /\ InChat("ask_save_dialog")
    /\ next_chat_stage' = "None"
    /\ UNCHANGED <<view, active_prompt, active_card, editing_message_index>>
    /\ Rerun("chatting", current_messages_data, Setup)
    /\ UNCHANGED <<current_chat_session_id, tableVars, live_prompts,
                   live_cards, veVars, treeVars, storeVars>>

\* prompt_service.get_prompt_by_id / character_service.get_card_by_id of the
\* item a session started from; 0 if there is none
LoadedPrompt(row) ==
    IF row.originating_prompt_id \in live_prompts
    THEN row.originating_prompt_id ELSE 0

LoadedCard(row) ==
    IF row.originating_prompt_id = 0 /\ row.originating_card_id \in live_cards
    THEN row.originating_card_id ELSE 0

\* "Load & Continue Chat" of the sessions page
LoadSession(s) ==
    /\ view = "sessions"
    /\ s \in 1..Len(chat_sessions)
    /\ ~chat_sessions[s].deleted
    /\ current_chat_session_id' = s
    /\ editing_message_index' = 0
    /\ active_prompt' = LoadedPrompt(chat_sessions[s])
    /\ active_card' = LoadedCard(chat_sessions[s])
    /\ view' = "chat"
    /\ Rerun("chatting", StoredMessages(chat_messages, s), NoSetup)
    /\ UNCHANGED <<next_chat_stage, tableVars, live_prompts, live_cards,
                   veVars, treeVars, storeVars>>

LoadAndContinue == \E s \in 1..MaxSessions : LoadSession(s)

\* "Delete Session", confirmed: the messages go with the session
DeleteSession ==
    \E s \in 1..Len(chat_sessions) :
        /\ view = "sessions"
        /\ ~chat_sessions[s].deleted
        /\ chat_sessions' = [chat_sessions EXCEPT ![s].deleted = TRUE]
        /\ chat_messages' = SelectSeq(chat_messages,
                                      LAMBDA row : row.session_id # s)
        /\ UNCHANGED <<view, next_chat_stage, active_prompt, active_card,
                       current_chat_session_id, editing_message_index>>
        /\ Rerun(chat_stage, current_messages_data, Setup)
        /\ UNCHANGED <<save_call, live_prompts, live_cards,
                       veVars, treeVars, storeVars>>

AppNext ==
    \/ Navigate
    \/ ChatWithPrompt
    \/ DeletePrompt
    \/ ChatWithCard
    \/ GoBack
    \/ SelectProvider
    \/ FillVariable
    \/ StartChat
    \/ SendMessage
    \/ EditMessage
    \/ SaveEdit
    \/ CancelEdit
    \/ SaveSession
    \/ ChangeModel
    \/ ExitChat
    \/ AnswerSave
    \/ AnswerDiscard
    \/ AnswerCancel
    \/ LoadAndContinue
    \/ DeleteSession

AppSpec == AppInit /\ [][AppNext]_vars

(***************************************************************************)
(* The chat page alone: from the setup page "Chat with this Prompt" opens, *)
(* the handlers of chat_view.py for an active prompt.                      *)
(***************************************************************************)
ChatInit ==
    /\ view = "chat"
    /\ chat_stage = "setup"
    /\ next_chat_stage = "absent"
    /\ active_prompt \in Prompts
    /\ active_card = 0
    /\ current_messages_data = <<>>
    /\ current_chat_session_id = 0
    /\ editing_message_index = 0
    /\ setup_chat_provider = RenderedSetup(active_prompt, NoSetup).provider
    /\ setup_chat_model = RenderedSetup(active_prompt, NoSetup).model
    /\ variable_values = RenderedSetup(active_prompt, NoSetup).values
    /\ llm_request = <<>>
    /\ live_prompts = Prompts
    /\ live_cards = Cards
    /\ MessagesIdle
    /\ VarIdle
    /\ TreeIdle
    /\ StoreIdle

ChatNext ==
    \/ SelectProvider
    \/ FillVariable
    \/ StartChat
    \/ SendMessage
    \/ EditMessage
    \/ SaveEdit
    \/ CancelEdit
    \/ SaveSession
    \/ ChangeModel
    \/ ExitChat
    \/ AnswerSave
    \/ AnswerDiscard
    \/ AnswerCancel

ChatSpec == ChatInit /\ [][ChatNext]_vars

(***************************************************************************)
(* save_chat_messages as a call on a chat_messages table of two sessions.  *)
(***************************************************************************)
MaxRows == 2

SessionIds == {1, 2}

MessageChoices ==
    [role : {"user", "assistant"}, content : {<<"u">>}, message_order : 0..1]

MessageLists == UNION {[1..n -> MessageChoices] : n \in 0..MaxRows}

TableInputs ==
    UNION {[1..n -> {MessageRow(s, msg) : s \in SessionIds, msg \in MessageChoices}] :
              n \in 0..MaxRows}

MessageInit ==
    /\ chat_messages \in TableInputs
    /\ chat_sessions = [s \in 1..2 |-> [originating_prompt_id |-> 0,
                                         originating_card_id |-> 0,
                                         deleted |-> FALSE]]
    /\ save_call = NoCall
    /\ ChatIdle
    /\ VarIdle
    /\ TreeIdle
    /\ StoreIdle

\* chat_service.save_chat_messages(session_id, messages)
CallSaveChatMessages ==
    \E session_id \in SessionIds, messages \in MessageLists :
        /\ ~save_call.called
        /\ chat_messages' = SaveChatMessages(chat_messages, session_id, messages)
        /\ save_call' = [called |-> TRUE, session_id |-> session_id,
                         messages |-> messages,
                         returned |-> StoredMessages(chat_messages', session_id)]
        /\ UNCHANGED <<chat_sessions, chatVars, veVars, treeVars, storeVars>>

MessageNext == CallSaveChatMessages

MessageSpec == MessageInit /\ [][MessageNext]_vars

(***************************************************************************)
(* Properties of the web application.                                      *)
(***************************************************************************)
\* C18: after "Change Model", answering the dialog with Save or Discard goes
\* on to the setup stage of the same chat: the view is still chat, chat_stage
\* is setup and the active prompt or card is the one it was.
C18_ChangeModelReachesSetup ==
    [][((AnswerSave \/ AnswerDiscard) /\ next_chat_stage = "setup")
           => /\ view' = "chat"
              /\ chat_stage' = "setup"
              /\ active_prompt' = active_prompt
              /\ active_card' = active_card]_vars

\* Whether the page shown is the chatting stage of the chat view.
ChattingShown ==
    /\ view = "chat"
    /\ HasItem(active_prompt, active_card)
    /\ chat_stage = "chatting"

\* C19: "Load & Continue Chat" of a session whose prompt or card is gone
\* opens the chat: the chatting stage is shown, with the stored messages of
\* the session (to which the render may add the reply it asks for).
C19_LoadWithoutItemOpensChat ==
    [][\A s \in 1..MaxSessions :
          (/\ LoadSession(s)
           /\ LoadedPrompt(chat_sessions[s]) = 0
           /\ LoadedCard(chat_sessions[s]) = 0)
              => /\ ChattingShown'
                 /\ SubSeq(current_messages_data', 1,
                           Len(StoredMessages(chat_messages, s)))
                        = StoredMessages(chat_messages, s)]_vars

\* C24: while the view is chat and the chat has a message, the view changes
\* and the messages are dropped only by the Save or the Discard answer of the
\* save dialog; Cancel goes back to the chatting stage and keeps the messages.
C24_AskedBeforeLeaving ==
    [][/\ (/\ view = "chat"
           /\ current_messages_data # <<>>
           /\ (view' # "chat" \/ current_messages_data' = <<>>))
              => /\ InChat("ask_save_dialog")
                 /\ AnswerSave \/ AnswerDiscard
       /\ AnswerCancel
              => /\ chat_stage' = "chatting"
                 /\ Len(current_messages_data') >= Len(current_messages_data)
                 /\ SubSeq(current_messages_data', 1, Len(current_messages_data))
                        = current_messages_data]_vars

\* C26: view is always one of the views main() routes.
C26_ViewIsRouted == view \in Views

InMessageOrder(msgs) ==
    \A j, k \in 1..Len(msgs) :
        j < k => msgs[j].message_order <= msgs[k].message_order

\* How often a message occurs in a sequence.
Occurrences(msgs, msg) == Cardinality({k \in 1..Len(msgs) : msgs[k] = msg})

\* The rows of a session in the table, in the order of insertion.
RowsOf(table, session_id) ==
    SelectSeq(table, LAMBDA row : row.session_id = session_id)

\* C23: save_chat_messages(session_id, messages) leaves as the rows of the
\* session exactly the given messages (role, content, message_order), returns
\* them ordered by message_order, and leaves the rows of every other session
\* as they were.
C23_SaveReplacesMessages ==
    [][CallSaveChatMessages =>
          /\ RowsOf(chat_messages', save_call'.session_id) =
                 [k \in 1..Len(save_call'.messages) |->
                     MessageRow(save_call'.session_id, save_call'.messages[k])]
          /\ InMessageOrder(save_call'.returned)
          /\ Len(save_call'.returned) = Len(save_call'.messages)
          /\ \A msg \in MessageChoices :
                 Occurrences(save_call'.returned, msg) =
                     Occurrences(save_call'.messages, msg)
          /\ InMessageOrder(save_call'.messages)
                 => save_call'.returned = save_call'.messages
          /\ \A s \in SessionIds \ {save_call'.session_id} :
                 RowsOf(chat_messages', s) = RowsOf(chat_messages, s)]_vars

C23_Witness ==
    /\ save_call.called
    /\ save_call.session_id = 1
    /\ Len(save_call.messages) = 2
    /\ save_call.messages[1].message_order = 1
    /\ save_call.messages[2].message_order = 0
    /\ save_call.returned = <<save_call.messages[2], save_call.messages[1]>>
    /\ RowsOf(chat_messages, 2) # <<>>

\* Whether a provider and a model are selected and every variable of the
\* active prompt's instruction text has a value that is not empty after
\* trimming.
Filled ==
    /\ setup_chat_provider # "None"
    /\ setup_chat_model # "None"
    /\ \A v \in Range(ExtractVariables(InitialTextContent(active_prompt))) :
           \E k \in 1..Len(variable_values) :
               /\ variable_values[k].key = v
               /\ \E j \in 1..Len(variable_values[k].value) :
                      ~IsSpace(variable_values[k].value[j])

\* C25: the stage goes from setup to chatting only with a provider and a
\* model selected and every variable filled; Start Chat without them leaves
\* the stage at setup and the messages as they were.
C25_StartChatNeedsFilledSetup ==
    [][/\ (chat_stage = "setup" /\ view = "chat" /\ chat_stage' = "chatting")
              => Filled
       /\ (StartChat /\ ~Filled)
              => /\ chat_stage' = "setup"
                 /\ current_messages_data' = current_messages_data]_vars

C25_Witness ==
    /\ chat_stage = "chatting"
    /\ active_prompt = 2
    /\ setup_chat_model = "m"
    /\ variable_values = <<[key |-> <<"a">>, value |-> <<"X">>]>>
    /\ current_messages_data # <<>>
    /\ current_messages_data[1] = ChatMessageData("system", <<"X">>, 0)

\* C27: the k-th message (0-based) of the current chat has message_order k.
C27_OrdersConsecutive ==
    \A k \in 1..Len(current_messages_data) :
        current_messages_data[k].message_order = k - 1

C27_Witness ==
    /\ active_prompt = 1
    /\ Len(current_messages_data) = MaxMessages
    /\ current_messages_data[2].content = <<"e">>
    /\ current_messages_data[Len(current_messages_data)].role = "assistant"
    /\ current_messages_data[Len(current_messages_data)].message_order
           = MaxMessages - 1

====
